---- MODULE Spec2Model ----
(***************************************************************************)
(* Model of carousel/release_robot.py: get_recent_tags enumerates the refs *)
(* of a dulwich repository and builds a list of tags sorted by commit time *)
(* from newest to oldest; get_current_version applies a regular expression *)
(* to the name of the newest tag.                                          *)
(*                                                                         *)
(* Strings are sequences of one-character strings.  Python's None is the   *)
(* empty set and a non-None value x is the singleton {x}.                  *)
(***************************************************************************)
EXTENDS Integers, Sequences, FiniteSets, TLC

VARIABLES
    valid,      \* projdir names a git repository
    refs,       \* project.get_refs().items(): sequence of [name, sha]
    pattern,    \* get_current_version's pattern argument
    logger,     \* get_current_version's logger argument is truthy
    pc,         \* position in the program
    handle,     \* the Repo object: "none", "open" or "closed"
    i,          \* index in refs of the current iteration of the for loop
    tags,       \* the dict tags, in insertion order: sequence of <<name, record>>
    origin,     \* history: bare tag name -> index of the ref that wrote tags[name]
    resolved,   \* history: indices of the refs handed to project.get_object
    err,        \* the exception raised, "" when none
    result,     \* the list returned by get_recent_tags
    tag,        \* tags[0][0] in get_current_version
    version,    \* the value returned by get_current_version
    ret,        \* the return statement taken by get_current_version
    applied,    \* history: re.match was called
    logged      \* number of calls of logger.exception

vars == <<valid, refs, pattern, logger, pc, handle, i, tags, origin, resolved,
          err, result, tag, version, ret, applied, logged>>

-----------------------------------------------------------------------------
(* Bounds *)

MaxRefs == 3        \* most refs in a repository
MaxLen == 3         \* longest tag name of the extraction specification

-----------------------------------------------------------------------------
(* Python values *)

None == {}
Some(x) == {x}

Max(S) == CHOOSE x \in S : \A y \in S : y <= x

-----------------------------------------------------------------------------
(* Character classes of the re module, over ASCII *)

Lower == {"a","b","c","d","e","f","g","h","i","j","k","l","m",
          "n","o","p","q","r","s","t","u","v","w","x","y","z"}
Upper == {"A","B","C","D","E","F","G","H","I","J","K","L","M",
          "N","O","P","Q","R","S","T","U","V","W","X","Y","Z"}
Digit == {"0","1","2","3","4","5","6","7","8","9"}
Word == Lower \cup Upper \cup Digit \cup {"_"}

\* [ a-zA-Z_\-]
PrefixClass == {" "} \cup Lower \cup Upper \cup {"_", "-"}
\* [\d\.]
NumberClass == Digit \cup {"."}
\* [\-\w\.]
SuffixClass == {"-"} \cup Word \cup {"."}

(* A compiled pattern is a sequence of quantified character classes, of    *)
(* which the items gFrom..gTo are inside capturing group 1 (groups = 0: no *)
(* group), and opt says the group is followed by "?".                      *)
Item(cls, min, many) == [cls |-> cls, min |-> min, many |-> many]

\* PATTERN with the group's left parenthesis one item late
PATTERN_GroupLate == "[ a-zA-Z_\\-]*[\\d\\.]+([\\-\\w\\.]*)"

\* PATTERN = r'[ a-zA-Z_\-]*([\d\.]+[\-\w\.]*)'
PATTERN == "[ a-zA-Z_\\-]*([\\d\\.]+[\\-\\w\\.]*)"

\* a group that can match the empty string
PatEmptyGroup == "[a-z]*([\\d\\.]*)"

\* a group that need not take part in the match
PatOptGroup == "v([\\d\\.]+)?"

\* no group 1
PatNoGroup == "[\\d\\.]+"

\* the pattern as the re module compiles it
compile(src) ==
    CASE src = "[ a-zA-Z_\\-]*([\\d\\.]+[\\-\\w\\.]*)" ->
           [items |-> << Item(PrefixClass, 0, TRUE),
                         Item(NumberClass, 1, TRUE),
                         Item(SuffixClass, 0, TRUE) >>,
            groups |-> 1, gFrom |-> 2, gTo |-> 3, opt |-> FALSE]
      [] src = "[ a-zA-Z_\\-]*[\\d\\.]+([\\-\\w\\.]*)" ->
           [items |-> << Item(PrefixClass, 0, TRUE),
                         Item(NumberClass, 1, TRUE),
                         Item(SuffixClass, 0, TRUE) >>,
            groups |-> 1, gFrom |-> 3, gTo |-> 3, opt |-> FALSE]
      [] src = "[a-z]*([\\d\\.]*)" ->
           [items |-> << Item(Lower, 0, TRUE), Item(NumberClass, 0, TRUE) >>,
            groups |-> 1, gFrom |-> 2, gTo |-> 2, opt |-> FALSE]
      [] src = "v([\\d\\.]+)?" ->
           [items |-> << Item({"v"}, 1, FALSE), Item(NumberClass, 1, TRUE) >>,
            groups |-> 1, gFrom |-> 2, gTo |-> 2, opt |-> TRUE]
      [] src = "[\\d\\.]+" ->
           [items |-> << Item(NumberClass, 1, TRUE) >>,
            groups |-> 0, gFrom |-> 0, gTo |-> 0, opt |-> FALSE]

Patterns == {PATTERN, PatEmptyGroup, PatOptGroup, PatNoGroup}

(* Number of characters of s from offset pos on that are in cls *)
RECURSIVE Run(_, _, _)
Run(s, pos, cls) ==
    IF pos < Len(s) /\ s[pos + 1] \in cls THEN 1 + Run(s, pos + 1, cls) ELSE 0

NoMatch == [ok |-> FALSE, gs |-> -1, ge |-> -1]

(* The backtracking matcher from item k at offset pos.  A greedy           *)
(* quantifier tries the longest repetition first, so the match found is    *)
(* the one with the largest count that lets the rest of the pattern match. *)
(* gs, ge are the offsets of group 1, -1 when it did not take part.        *)
RECURSIVE MatchFrom(_, _, _, _)
MatchFrom(p, s, k, pos) ==
    IF k > Len(p.items) THEN [ok |-> TRUE, gs |-> -1, ge |-> -1]
    ELSE
      LET it == p.items[k]
          run == Run(s, pos, it.cls)
          most == IF it.many \/ run = 0 THEN run ELSE 1
          good == {n \in it.min..most : MatchFrom(p, s, k + 1, pos + n).ok}
          skip == MatchFrom(p, s, p.gTo + 1, pos)
      IN IF good # {}
           THEN LET n == Max(good)
                    r == MatchFrom(p, s, k + 1, pos + n)
                    r1 == IF k = p.gTo THEN [r EXCEPT !.ge = pos + n] ELSE r
                IN IF k = p.gFrom THEN [r1 EXCEPT !.gs = pos] ELSE r1
         ELSE IF p.opt /\ k = p.gFrom THEN skip
         ELSE NoMatch

\* re.match(pattern, tag): anchored at the start of the string
re_match(p, s) == MatchFrom(compile(p), s, 1, 0)

-----------------------------------------------------------------------------
(* time.gmtime and datetime.datetime *)

\* days since 1970-01-01 to <<year, month, day>> of the Gregorian calendar
CivilFromDays(days) ==
    LET z == days + 719468
        era == z \div 146097
        doe == z - era * 146097
        yoe == (doe - doe \div 1460 + doe \div 36524 - doe \div 146096) \div 365
        doy == doe - (365 * yoe + yoe \div 4 - yoe \div 100)
        mp == (5 * doy + 2) \div 153
        d == doy - (153 * mp + 2) \div 5 + 1
        m == IF mp < 10 THEN mp + 3 ELSE mp - 9
        y == yoe + era * 400 + (IF m <= 2 THEN 1 ELSE 0)
    IN <<y, m, d>>

\* datetime.datetime(*time.gmtime(t)[:6])
DateTime(t) ==
    LET rem == t % 86400
    IN CivilFromDays(t \div 86400) \o
       << rem \div 3600, (rem % 3600) \div 60, rem % 60 >>

\* a < b for datetimes: lexicographic on (year, month, day, hour, minute, second)
DtLess(a, b) ==
    \E k \in 1..6 : a[k] < b[k] /\ \A j \in 1..(k - 1) : a[j] = b[j]

-----------------------------------------------------------------------------
(* The repository: an object store and reference names *)

\* The objects project.get_object can return, by SHA-1.  "c1" and "c2" are
\* commits one second apart across the end of a month, "t1" is an annotated
\* tag of c2, "t2" an annotated tag of the tree "tr".  No object has the
\* SHA-1 "xx": project.get_object raises KeyError for it.
Store ==
    [sha \in {"c1", "c2", "t1", "t2", "tr"} |->
        CASE sha = "c1" -> [type |-> "commit", id |-> "c1",
                            commit_time |-> 2678399, author |-> "ann"]
          [] sha = "c2" -> [type |-> "commit", id |-> "c2",
                            commit_time |-> 2678400, author |-> "bob"]
          [] sha = "t1" -> [type |-> "tag", id |-> "t1", tag_time |-> 2678401,
                            name |-> "v2", object |-> <<"commit", "c2">>]
          [] sha = "t2" -> [type |-> "tag", id |-> "t2", tag_time |-> 2678401,
                            name |-> "tr", object |-> <<"tree", "tr">>]
          [] sha = "tr" -> [type |-> "tree", id |-> "tr"]]

ObjIds == DOMAIN Store \cup {"xx"}

RefsTags == <<"r","e","f","s","/","t","a","g","s","/">>
RefsHeads == <<"r","e","f","s","/","h","e","a","d","s","/">>

\* refs/tags/a/v1, refs/tags/b/v1, refs/tags/v2, refs/tags/rc,
\* refs/heads/master
RefNames ==
    { RefsTags \o <<"a","/","v","1">>,
      RefsTags \o <<"b","/","v","1">>,
      RefsTags \o <<"v","2">>,
      RefsTags \o <<"r","c">>,
      RefsHeads \o <<"m","a","s","t","e","r">> }

Ref(name, sha) == [name |-> name, sha |-> sha]

\* What get_refs().items() can yield: distinct names, in any order
RefSeqs ==
    UNION { { s \in [1..n -> {Ref(nm, sha) : nm \in RefNames, sha \in ObjIds}] :
                \A a, b \in 1..n : a # b => s[a].name # s[b].name }
            : n \in 0..MaxRefs }

\* sub in key, for strings
Contains(key, sub) ==
    \E k \in 0..(Len(key) - Len(sub)) : SubSeq(key, k + 1, k + Len(sub)) = sub

\* key.rsplit(u'/', 1)[1]: what follows the last "/"
RSplit(key) ==
    LET last == Max({k \in 1..Len(key) : key[k] = "/"})
    IN SubSeq(key, last + 1, Len(key))

-----------------------------------------------------------------------------
(* get_recent_tags *)

\* the annotation is dropped
tag_meta_None(obj) == None

\* tag_meta: None for an object without the attribute "object", else the
\* tuple (tag time, tag id, tag name)
tag_meta(obj) ==
    IF obj.type = "tag"
      THEN Some(<<DateTime(obj.tag_time), obj.id, obj.name>>)
      ELSE None

\* the list tags[tag] is assigned
TagRecord(commit, meta) ==
    << DateTime(commit.commit_time), commit.id, commit.author, meta >>

Raise(e) == [out |-> "raise", err |-> e]
Continue == [out |-> "continue"]
Assign(t, rec) == [out |-> "assign", tag |-> t, rec |-> rec]

(* One iteration of the for loop over refs.items() *)
Iteration(r) ==
    IF r.sha \notin DOMAIN Store THEN Raise("KeyError")
    ELSE LET obj == Store[r.sha] IN
      IF ~Contains(r.name, <<"t","a","g","s">>) THEN Continue
      ELSE IF ~Contains(r.name, <<"/">>) THEN Raise("ValueError")
      ELSE IF obj.type = "tag"
        THEN IF obj.object[2] \notin DOMAIN Store THEN Raise("KeyError")
             ELSE LET commit == Store[obj.object[2]] IN
               IF commit.type # "commit" THEN Raise("AttributeError")
               ELSE Assign(RSplit(r.name), TagRecord(commit, tag_meta(obj)))
        ELSE IF obj.type # "commit" THEN Raise("AttributeError")
             ELSE Assign(RSplit(r.name), TagRecord(obj, tag_meta(obj)))

Keys(d) == {d[k][1] : k \in 1..Len(d)}

\* d[key] = val on a dict that keeps insertion order: a key already there
\* keeps its place
DictSet(d, key, val) ==
    IF key \in Keys(d)
      THEN [k \in 1..Len(d) |-> IF d[k][1] = key THEN <<key, val>> ELSE d[k]]
      ELSE Append(d, <<key, val>>)

\* e goes after every item whose commit time is not older than e's
InsertNewestFirst(e, out) ==
    LET older == {k \in 1..Len(out) : DtLess(out[k][2][1], e[2][1])}
        at == IF older = {} THEN Len(out) + 1
              ELSE CHOOSE k \in older : \A j \in older : k <= j
    IN SubSeq(out, 1, at - 1) \o <<e>> \o SubSeq(out, at, Len(out))

RECURSIVE SortPrefix(_, _)
SortPrefix(items, n) ==
    IF n = 0 THEN <<>>
    ELSE InsertNewestFirst(items[n], SortPrefix(items, n - 1))

\* the sort without reverse=True and its key: the items as they are
sorted_unsorted(items) == items

\* sorted(tags.items(), key=lambda tag: tag[1][0], reverse=True): stable
sorted(items) == SortPrefix(items, Len(items))

\* the handle is left as it is
exit_leaves(h) == h

\* Repo.__exit__ at the end of the with block
exit(h) == "closed"

\* Repo(projdir) on a git repository; get_refs()
OpenRepo ==
    /\ pc = "start" /\ valid
    /\ handle' = "open"
    /\ i' = 1
    /\ pc' = "loop"
    /\ UNCHANGED <<valid, refs, pattern, logger, tags, origin, resolved, err,
                   result, tag, version, ret, applied, logged>>

\* Repo(projdir) raises NotGitRepository
OpenFail ==
    /\ pc = "start" /\ ~valid
    /\ err' = "NotGitRepository"
    /\ pc' = "raised"
    /\ UNCHANGED <<valid, refs, pattern, logger, handle, i, tags, origin,
                   resolved, result, tag, version, ret, applied, logged>>

\* the body of the for loop, for refs[i]
LoopBody ==
    /\ pc = "loop" /\ i <= Len(refs)
    /\ LET o == Iteration(refs[i]) IN
         /\ resolved' = resolved \cup {i}
         /\ IF o.out = "raise"
              THEN /\ err' = o.err
                   /\ pc' = "unwind"
                   /\ UNCHANGED <<i, tags, origin>>
            ELSE IF o.out = "continue"
              THEN /\ i' = i + 1
                   /\ UNCHANGED <<pc, err, tags, origin>>
            ELSE /\ tags' = DictSet(tags, o.tag, o.rec)
                 /\ origin' = (o.tag :> i) @@ origin
                 /\ i' = i + 1
                 /\ UNCHANGED <<pc, err>>
    /\ UNCHANGED <<valid, refs, pattern, logger, handle, result, tag, version,
                   ret, applied, logged>>

\* the loop is over: leave the with block
ExitWith ==
    /\ pc = "loop" /\ i > Len(refs)
    /\ handle' = exit(handle)
    /\ pc' = "sort"
    /\ UNCHANGED <<valid, refs, pattern, logger, i, tags, origin, resolved, err,
                   result, tag, version, ret, applied, logged>>

\* an exception leaves the with block; nothing catches it afterwards
ExitWithError ==
    /\ pc = "unwind"
    /\ handle' = exit(handle)
    /\ pc' = "raised"
    /\ UNCHANGED <<valid, refs, pattern, logger, i, tags, origin, resolved, err,
                   result, tag, version, ret, applied, logged>>

\* return sorted(...)
ReturnSorted ==
    /\ pc = "sort"
    /\ result' = sorted(tags)
    /\ pc' = "returned"
    /\ UNCHANGED <<valid, refs, pattern, logger, handle, i, tags, origin,
                   resolved, err, tag, version, ret, applied, logged>>

-----------------------------------------------------------------------------
(* get_current_version *)

\* group 1 of a match: None when the group did not take part
group1(s, m) == IF m.gs < 0 THEN None ELSE Some(SubSeq(s, m.gs + 1, m.ge))

\* what get_current_version does with the newest tag t: the value returned,
\* the return statement taken and whether logger.exception is called
current_version(p, t, lg) ==
    LET matches == re_match(p, t) IN
      IF ~matches.ok \/ compile(p).groups < 1
        THEN [value |-> Some(t), ret |-> "tag", logs |-> lg]
        ELSE [value |-> group1(t, matches), ret |-> "current_version",
              logs |-> FALSE]

\* tag = tags[0][0], or return on IndexError
FirstTag ==
    /\ pc = "returned"
    /\ IF result = <<>>
         THEN /\ version' = None
              /\ ret' = "none"
              /\ pc' = "done"
              /\ UNCHANGED tag
         ELSE /\ tag' = result[1][1]
              /\ pc' = "match"
              /\ UNCHANGED <<version, ret>>
    /\ UNCHANGED <<valid, refs, pattern, logger, handle, i, tags, origin,
                   resolved, err, result, applied, logged>>

\* re.match, matches.group(1) and the except clause
MatchPattern ==
    /\ pc = "match"
    /\ LET r == current_version(pattern, tag, logger) IN
         /\ version' = r.value
         /\ ret' = r.ret
         /\ logged' = IF r.logs THEN logged + 1 ELSE logged
    /\ applied' = TRUE
    /\ pc' = "done"
    /\ UNCHANGED <<valid, refs, pattern, logger, handle, i, tags, origin,
                   resolved, err, result, tag>>

-----------------------------------------------------------------------------
(* Specifications *)

Start ==
    /\ pc = "start" /\ handle = "none" /\ i = 0
    /\ tags = <<>> /\ origin = <<>> /\ resolved = {}
    /\ err = "" /\ result = <<>> /\ tag = <<>>
    /\ version = None /\ ret = "" /\ applied = FALSE /\ logged = 0

\* the command line: print(get_current_version(projdir=_PROJDIR))
Init ==
    /\ valid \in BOOLEAN
    /\ refs \in IF valid THEN RefSeqs ELSE {<<>>}
    /\ pattern = PATTERN
    /\ logger = FALSE
    /\ Start

Next ==
    \/ OpenRepo
    \/ OpenFail
    \/ LoopBody
    \/ ExitWith
    \/ ExitWithError
    \/ ReturnSorted
    \/ FirstTag
    \/ MatchPattern

Spec == Init /\ [][Next]_vars

\* refs/tags/v2, refs/tags/rc, refs/heads/master
HandleRefNames ==
    { RefsTags \o <<"v","2">>,
      RefsTags \o <<"r","c">>,
      RefsHeads \o <<"m","a","s","t","e","r">> }

\* the command line on a repository whose refs have these names: each ref is
\* a tag or a branch and points at any object or at none
InitHandle ==
    /\ valid \in BOOLEAN
    /\ refs \in IF valid
                THEN {s \in RefSeqs : \A k \in 1..Len(s) : s[k].name \in HandleRefNames}
                ELSE {<<>>}
    /\ pattern = PATTERN
    /\ logger = FALSE
    /\ Start

\* the program is sequential: inside get_recent_tags a statement that can
\* run does run, up to and including the end of the with block
FairSpec ==
    /\ InitHandle /\ [][Next]_vars
    /\ WF_vars(OpenRepo) /\ WF_vars(LoopBody)
    /\ WF_vars(ExitWith) /\ WF_vars(ExitWithError)

Alphabet == {"v", "1", ".", "-", "_", " "}

TagNames == UNION {[1..n -> Alphabet] : n \in 1..MaxLen}

\* get_current_version(projdir, pattern, logger) on a repository whose only
\* ref is a lightweight tag
InitExtract ==
    /\ valid = TRUE
    /\ refs \in {<<Ref(RefsTags \o t, "c1")>> : t \in TagNames}
    /\ pattern \in Patterns
    /\ logger \in BOOLEAN
    /\ Start

NextExtract ==
    \/ OpenRepo
    \/ LoopBody
    \/ ExitWith
    \/ ReturnSorted
    \/ FirstTag
    \/ MatchPattern

SpecExtract == InitExtract /\ [][NextExtract]_vars

-----------------------------------------------------------------------------
(* Vocabulary of the properties *)

\* the ref's name contains the tag marker
IsTagRef(r) == Contains(r.name, <<"t","a","g","s">>)

\* the object resolves to a commit, directly or through an annotation
Commitish(sha) ==
    /\ sha \in DOMAIN Store
    /\ \/ Store[sha].type = "commit"
       \/ /\ Store[sha].type = "tag"
          /\ Store[sha].object[2] \in DOMAIN Store
          /\ Store[Store[sha].object[2]].type = "commit"

\* the resolvable tag references of the repository
Resolvable == {k \in 1..Len(refs) : IsTagRef(refs[k]) /\ Commitish(refs[k].sha)}

\* get_recent_tags has returned its list
Returned == pc \in {"returned", "match", "done"}

\* get_recent_tags or get_current_version was left by an exception
Failed == pc \in {"unwind", "raised"}

\* seconds since the epoch of the commit of the k-th item of the result
CommitSeconds(k) == Store[result[k][2][2]].commit_time

\* the ref whose iteration wrote the k-th item of the result
Producer(k) == refs[origin[result[k][1]]]

-----------------------------------------------------------------------------
(* Properties *)

\* C1: the list get_recent_tags returns is sorted by commit time from newest
\* to oldest: the commit of each item is not older than the commit of the next.
C1_SortedNewestFirst ==
    Returned =>
        \A k \in 1..(Len(result) - 1) : CommitSeconds(k) >= CommitSeconds(k + 1)

\* C1: a list was returned whose order is not the order of insertion
C1_Witness ==
    /\ Returned
    /\ Len(result) >= 2
    /\ result # tags
    /\ CommitSeconds(1) > CommitSeconds(Len(result))

\* C2: get_recent_tags returns as many records as the repository has
\* resolvable tag references, also when two of them have the same bare name.
C2_OneRecordPerTagRef ==
    Returned => Len(result) = Cardinality(Resolvable)

\* C3: in the list returned, a record written from an annotated tag object has
\* an annotation, which carries the id of that tag object, and a record
\* written from a ref that points at a commit has None.
C3_AnnotationIffAnnotated ==
    Returned =>
        \A k \in 1..Len(result) :
            LET obj == Store[Producer(k).sha]
                meta == result[k][2][4]
            IN /\ obj.type = "tag" =>
                    meta # None /\ (CHOOSE a \in meta : TRUE)[2] = obj.id
               /\ obj.type = "commit" => meta = None

\* C3: a list was returned with a record of an annotated tag and a record of
\* a lightweight tag
C3_Witness ==
    /\ Returned
    /\ \E k \in 1..Len(result) : Store[Producer(k).sha].type = "tag"
    /\ \E k \in 1..Len(result) : Store[Producer(k).sha].type = "commit"

\* C4: with a pattern of one group, get_current_version returns the newest tag
\* unmodified, and calls the logger if and only if there is one, when the
\* match fails or group 1 did not take part or is empty; otherwise it returns
\* group 1.
C4_FallbackUnlessCaptured ==
    (pc = "done" /\ applied /\ compile(pattern).groups = 1) =>
        LET g == group1(tag, re_match(pattern, tag))
            fails == ~re_match(pattern, tag).ok \/ g = None \/ g = Some(<<>>)
        IN IF fails
             THEN version = Some(tag) /\ logged = (IF logger THEN 1 ELSE 0)
             ELSE version = g /\ logged = 0

\* C5: a tag reference whose object does not resolve to a commit is skipped:
\* no exception leaves the loop at such a reference.
C5_BadTagRefsSkipped ==
    (Failed /\ valid) => ~(IsTagRef(refs[i]) /\ ~Commitish(refs[i].sha))

\* C6: with the default pattern, the version captured from a tag name is
\* returned unchanged when it is itself the newest tag name.
C6_Idempotent ==
    (pc = "done" /\ pattern = PATTERN /\ ret = "current_version"
        /\ version # None) =>
        current_version(PATTERN, CHOOSE v \in version : TRUE, logger).value
            = version

\* C6: a version was captured that is shorter than the tag name and has a
\* suffix after its digits
C6_Witness ==
    /\ pc = "done" /\ pattern = PATTERN /\ ret = "current_version"
    /\ version # None /\ version # Some(tag)
    /\ \E k \in 1..Len(CHOOSE v \in version : TRUE) :
           (CHOOSE v \in version : TRUE)[k] \notin NumberClass

\* C7: on a repository without resolvable tags get_current_version returns
\* None: no exception, no call of re.match, no call of the logger.
C7_NoTagsNoVersion ==
    (valid /\ Resolvable = {} /\ (Failed \/ pc = "done")) =>
        /\ pc = "done" /\ ret = "none" /\ version = None
        /\ ~applied /\ logged = 0

C9_HandleReleased ==
    /\ (handle = "open") ~> (handle = "closed")
    /\ [][handle = "closed" => (handle' = "closed" /\ resolved' = resolved)]_vars

\* C9: the repository is closed after an exception left the loop before its
\* last iteration
C9_Witness ==
    /\ handle = "closed" /\ pc = "raised"
    /\ resolved # {} /\ i < Len(refs)

\* C10: project.get_object is called only for references whose name contains
\* the tag marker, and no exception leaves the loop at another reference.
C10_OnlyTagRefsResolved ==
    /\ \A k \in resolved : IsTagRef(refs[k])
    /\ (Failed /\ valid) => IsTagRef(refs[i])

====
